---- MODULE Spec2Model ----
(***************************************************************************)
(* Ollama chat: the page (+page.svelte: onMount, handleSubmit), the two    *)
(* relay handlers (GET /api/ollama/tags, POST /api/ollama/chat) and the    *)
(* upstream inference service they call.                                   *)
(*                                                                         *)
(* Text is a sequence of units, each a string: a character, or the run     *)
(* "..." of three dots, which the model never divides.  The streamed body  *)
(* is a sequence of such units as well: a unit of ASCII text is its own    *)
(* encoding, and the two-byte character "e'" is the bytes "C3" "A9".  In   *)
(* an NDJSON line the unit "{" stands for the opening                      *)
(* {"message":{"content":"  of a fragment, "}" for its closing  "}}  and   *)
(* "x" for a byte that makes a line no JSON value.                         *)
(***************************************************************************)
EXTENDS Integers, Sequences, FiniteSets, TLC

\* ------------------------------------------------------------------ bounds

\* Lines the upstream service emits over one session, all responses together.
MaxLines == 3

\* Submissions that pass the guard of handleSubmit in one session.
MaxExchanges == 2

\* ------------------------------------------------------------- environment

\* Values of the setting OLLAMA_API_URL: unset, or the base URL.
ApiUrls == {"", "http://ollama:11434"}

\* Names the upstream may list (a name may be empty: nothing enforces it).
ModelLists == {<<>>, <<"llama", "">>}

\* What the user may type into the input.
Inputs == {<<>>, <<" ">>, <<"h">>}

\* Cause codes of a rejected upstream call.
CauseCodes == {"ECONNREFUSED", "ETIMEDOUT", "ENOTFOUND"}

\* Non-success statuses and body texts of the upstream.
ErrorStatuses == {404, 500}
ErrorTexts == {"", "model not found"}

\* The lines the upstream may stream; Encode gives their bytes.
\*   fragment: a JSON object with message.content = content
\*   plain:    a JSON object with no message content (the final "done" line)
\*   garbage:  no JSON value; the text after its first byte is a fragment
StreamLines ==
    { [kind |-> "fragment", content |-> <<"e'">>],
      [kind |-> "fragment", content |-> <<"...">>],
      [kind |-> "plain", content |-> <<>>],
      [kind |-> "garbage", content |-> <<"e'">>] }

\* ------------------------------------------------------------ pure helpers

WhiteSpace == {" ", "\n"}

RECURSIVE TrimStart(_)
TrimStart(s) ==
    IF s # <<>> /\ Head(s) \in WhiteSpace THEN TrimStart(Tail(s)) ELSE s

RECURSIVE TrimEnd(_)
TrimEnd(s) ==
    IF s # <<>> /\ s[Len(s)] \in WhiteSpace
    THEN TrimEnd(SubSeq(s, 1, Len(s) - 1))
    ELSE s

\* String.prototype.trim
Trim(s) == TrimEnd(TrimStart(s))

\* UTF-8 bytes of one character.
Utf8Char(c) == IF c = "e'" THEN <<"C3", "A9">> ELSE <<c>>

RECURSIVE Utf8(_)
Utf8(s) == IF s = <<>> THEN <<>> ELSE Utf8Char(Head(s)) \o Utf8(Tail(s))

\* The bytes of one streamed line, newline included.
Encode(l) ==
    CASE l.kind = "fragment" -> <<"{">> \o Utf8(l.content) \o <<"}", "\n">>
      [] l.kind = "plain"    -> <<"{", "}", "\n">>
      [] OTHER               -> <<"x", "{">> \o Utf8(l.content) \o <<"}", "\n">>

\* TextDecoder.decode(value, {stream: true}): pending is TRUE when the last
\* call ended on the lead byte "C3".  An ill-formed sequence decodes to "?"
\* (U+FFFD).  Gives <<text, pending>>.
RECURSIVE Decode(_, _)
Decode(pending, bytes) ==
    IF bytes = <<>> THEN <<(<<>>), pending>>
    ELSE LET b == Head(bytes) IN
         IF pending
         THEN IF b = "A9"
              THEN LET r == Decode(FALSE, Tail(bytes)) IN <<(<<"e'">>) \o r[1], r[2]>>
              ELSE LET r == Decode(FALSE, bytes) IN <<(<<"?">>) \o r[1], r[2]>>
         ELSE IF b = "C3" THEN Decode(TRUE, Tail(bytes))
              ELSE LET r == Decode(FALSE, Tail(bytes)) IN
                   <<(<<(IF b = "A9" THEN "?" ELSE b)>>) \o r[1], r[2]>>

\* String.prototype.split('\n')
RECURSIVE SplitNewline(_, _)
SplitNewline(cur, text) ==
    IF text = <<>> THEN <<cur>>
    ELSE IF Head(text) = "\n"
         THEN <<cur>> \o SplitNewline(<<>>, Tail(text))
         ELSE SplitNewline(Append(cur, Head(text)), Tail(text))

\* chunk.split('\n').filter(line => line.trim() !== '')
ChunkLines(text) == SelectSeq(SplitNewline(<<>>, text), LAMBDA l : Trim(l) # <<>>)

\* Characters a JSON string may hold unescaped.
StringChars == {"...", "e'", "?", " ", "h"}

\* JSON.parse(line) followed by the read of message.content: ok is FALSE when
\* JSON.parse throws, content is the empty text when there is none.
ParseLine(line) ==
    LET t == Trim(line) IN
    IF /\ Len(t) >= 2
       /\ t[1] = "{"
       /\ t[Len(t)] = "}"
       /\ \A i \in 2..(Len(t) - 1) : t[i] \in StringChars
    THEN [ok |-> TRUE, content |-> SubSeq(t, 2, Len(t) - 1)]
    ELSE [ok |-> FALSE, content |-> <<>>]

\* ------------------------------------------------------------------- state

VARIABLES
    apiUrl,                  \* OLLAMA_API_URL
    getPc, getResponse, getCalls, getOutcome,       \* GET /api/ollama/tags
    postPc, postRequest, postResponse, postCalls,   \* POST /api/ollama/chat
    postOutcome,
    streamState, body, sentLines, linesEmitted,     \* the upstream's chat body
    messages, userInput, selectedModel, availableModels,
    isLoading, isLoadingModels, errorMessage,       \* the page's variables
    mountPc, submitPc,                              \* where onMount / handleSubmit wait
    assistantMessageContent, decoderPending,        \* locals of handleSubmit
    receivedBytes, exchanges

getVars == <<getPc, getResponse, getCalls, getOutcome>>
postVars == <<postPc, postRequest, postResponse, postCalls, postOutcome>>
streamVars == <<streamState, body, sentLines, linesEmitted>>
pageVars == <<messages, userInput, selectedModel, availableModels,
              isLoading, isLoadingModels, errorMessage>>
readerVars == <<assistantMessageContent, decoderPending, receivedBytes>>
vars == <<apiUrl, getVars, postVars, streamVars, pageVars, readerVars,
          mountPc, submitPc, exchanges>>

NoResponse == [status |-> 0, error |-> <<>>, kind |-> "none", data |-> <<>>]
NoOutcome == [kind |-> "none", name |-> "", cause |-> "", status |-> 0,
              text |-> "", models |-> <<>>]
NoRequest == [kind |-> "none", has |-> {}, model |-> "", messages |-> <<>>, stream |-> FALSE]

\* response.ok
Ok(response) == response.status >= 200 /\ response.status <= 299

\* json({error}, {status}) / new Response(JSON.stringify({error}), {status})
ErrorEnvelope(status, error) ==
    [status |-> status, error |-> error, kind |-> "json", data |-> <<>>]

Init ==
    /\ apiUrl \in ApiUrls
    /\ getPc = "idle" /\ getResponse = NoResponse /\ getCalls = <<>>
    /\ getOutcome = NoOutcome /\ postOutcome = NoOutcome
    /\ postPc = "idle" /\ postRequest = NoRequest
    /\ postResponse = NoResponse /\ postCalls = <<>>
    /\ streamState = "none" /\ body = <<>> /\ sentLines = <<>> /\ linesEmitted = 0
    /\ messages = <<>> /\ userInput = <<>> /\ selectedModel = ""
    /\ availableModels = <<>>
    /\ isLoading = FALSE /\ isLoadingModels = TRUE /\ errorMessage = <<>>
    /\ mountPc = "start" /\ submitPc = "idle"
    /\ assistantMessageContent = <<>> /\ decoderPending = FALSE
    /\ receivedBytes = <<>> /\ exchanges = 0

\* ------------------------------------------------------- the upstream calls

\* How a call to the upstream service may settle.
Rejections == { [kind |-> "reject", name |-> "TypeError", cause |-> c,
                 status |-> 0, text |-> "", models |-> <<>>] : c \in CauseCodes }
HttpErrors == { [kind |-> "status", name |-> "", cause |-> "",
                 status |-> s, text |-> t, models |-> <<>>] :
                s \in ErrorStatuses, t \in ErrorTexts }
TagsOutcomes ==
    Rejections \cup HttpErrors
    \cup { [kind |-> "ok", name |-> "", cause |-> "", status |-> 200,
            text |-> "", models |-> m] : m \in ModelLists }
    \cup { [kind |-> "badjson", name |-> "SyntaxError", cause |-> "",
            status |-> 200, text |-> "", models |-> <<>>] }
ChatOutcomes ==
    Rejections \cup HttpErrors
    \cup { [kind |-> "ok", name |-> "", cause |-> "", status |-> 200,
            text |-> "", models |-> <<>>] }

\* ------------------------------------------------ GET /api/ollama/tags

\* Mutant: the setting is never found missing.
UnconfiguredNever(url) == FALSE

\* !OLLAMA_API_URL
Unconfigured(url) == url = ""

NotConfigured == <<"Application is not configured to connect to Ollama service.">>

\* The catch block of GET: the envelope for a thrown error.
GetCatch(error) ==
    IF error.cause = "ECONNREFUSED"
    THEN ErrorEnvelope(503, <<"Failed to connect to Ollama service at ", apiUrl,
                              ". Ensure the service is running and accessible.">>)
    ELSE ErrorEnvelope(500, <<"An unexpected error occurred while trying to connect to the Ollama service.">>)

\* Mutant: every upstream error is answered 500.
UpstreamErrorEnvelope500(status, errorText) ==
    ErrorEnvelope(500, <<"Ollama service error: ", ToString(status), " - ", errorText>>)

\* The envelope for a non-success upstream response.
UpstreamErrorEnvelope(status, errorText) ==
    ErrorEnvelope(status, <<"Ollama service error: ", ToString(status), " - ", errorText>>)

\* GET up to its upstream fetch.
GetHandle ==
    /\ getPc = "pending"
    /\ IF Unconfigured(apiUrl)
       THEN /\ getResponse' = ErrorEnvelope(500, NotConfigured)
            /\ getPc' = "responded"
            /\ UNCHANGED getCalls
       ELSE /\ getCalls' = Append(getCalls, [url |-> <<apiUrl, "/api/tags">>, method |-> "GET"])
            /\ getPc' = "upstream"
            /\ UNCHANGED getResponse
    /\ UNCHANGED <<apiUrl, getOutcome, postVars, streamVars, pageVars, readerVars,
                   mountPc, submitPc, exchanges>>

\* The response GET gives once its upstream fetch has settled.
GetResult(outcome) ==
    CASE outcome.kind = "ok" ->
           [status |-> 200, error |-> <<>>, kind |-> "json", data |-> outcome.models]
      [] outcome.kind = "status" -> UpstreamErrorEnvelope(outcome.status, outcome.text)
      [] OTHER -> GetCatch(outcome)

GetContinue ==
    /\ getPc = "upstream"
    /\ \E outcome \in TagsOutcomes :
         /\ getResponse' = GetResult(outcome)
         /\ getOutcome' = outcome
    /\ getPc' = "responded"
    /\ UNCHANGED <<apiUrl, getCalls, postVars, streamVars, pageVars, readerVars,
                   mountPc, submitPc, exchanges>>

\* ------------------------------------------------ POST /api/ollama/chat

\* Mutant: a refused connection is not told from any other error.
PostCatchUnclassified(error) ==
    IF error.name = "SyntaxError"
    THEN ErrorEnvelope(400, <<"Invalid JSON in request body.">>)
    ELSE ErrorEnvelope(500, <<"An unexpected error occurred in the chat API.">>)

\* The catch block of POST.
PostCatch(error) ==
    IF error.cause = "ECONNREFUSED"
    THEN ErrorEnvelope(503, <<"Failed to connect to Ollama service at ", apiUrl,
                              ". Ensure the service is running and accessible.">>)
    ELSE IF error.name = "SyntaxError"
         THEN ErrorEnvelope(400, <<"Invalid JSON in request body.">>)
         ELSE ErrorEnvelope(500, <<"An unexpected error occurred in the chat API.">>)

\* !model || !messages, for a body that is a JSON value other than null.
MissingFields(request) ==
    \/ "model" \notin request.has
    \/ request.model = ""
    \/ "messages" \notin request.has

\* Mutant: the caller's stream flag is passed on.
ForwardedBodyCallerStream(request) ==
    [model |-> request.model, messages |-> request.messages, stream |-> request.stream]

\* The body of the upstream chat call.
ForwardedBody(request) ==
    [model |-> request.model, messages |-> request.messages, stream |-> TRUE]

\* POST up to its upstream fetch.  request.json() throws a SyntaxError on a
\* body that is no JSON; destructuring null throws a TypeError.
PostHandle ==
    /\ postPc = "pending"
    /\ IF Unconfigured(apiUrl)
       THEN /\ postResponse' = ErrorEnvelope(500, NotConfigured)
            /\ postPc' = "responded"
            /\ UNCHANGED postCalls
       ELSE IF postRequest.kind = "invalid"
       THEN /\ postResponse' = PostCatch([name |-> "SyntaxError", cause |-> ""])
            /\ postPc' = "responded"
            /\ UNCHANGED postCalls
       ELSE IF postRequest.kind = "null"
       THEN /\ postResponse' = PostCatch([name |-> "TypeError", cause |-> ""])
            /\ postPc' = "responded"
            /\ UNCHANGED postCalls
       ELSE IF MissingFields(postRequest)
       THEN /\ postResponse' = ErrorEnvelope(400, <<"Missing model or messages in request body.">>)
            /\ postPc' = "responded"
            /\ UNCHANGED postCalls
       ELSE /\ postCalls' = Append(postCalls,
                  [url |-> <<apiUrl, "/api/chat">>, method |-> "POST",
                   body |-> ForwardedBody(postRequest)])
            /\ postPc' = "upstream"
            /\ UNCHANGED postResponse
    /\ UNCHANGED <<apiUrl, postRequest, postOutcome, getVars, streamVars, pageVars,
                   readerVars, mountPc, submitPc, exchanges>>

\* The response POST gives once its upstream fetch has settled.
PostResult(outcome) ==
    CASE outcome.kind = "ok" ->
           [status |-> 200, error |-> <<>>, kind |-> "stream", data |-> <<>>]
      [] outcome.kind = "status" -> UpstreamErrorEnvelope(outcome.status, outcome.text)
      [] OTHER -> PostCatch(outcome)

\* On success the upstream's body becomes the body of the response.
PostContinue ==
    /\ postPc = "upstream"
    /\ \E outcome \in ChatOutcomes :
         /\ postResponse' = PostResult(outcome)
         /\ postOutcome' = outcome
         /\ streamState' = IF outcome.kind = "ok" THEN "open" ELSE "none"
    /\ postPc' = "responded"
    /\ body' = <<>>
    /\ sentLines' = <<>>
    /\ UNCHANGED <<apiUrl, postRequest, postCalls, linesEmitted, getVars, pageVars,
                   readerVars, mountPc, submitPc, exchanges>>

\* ------------------------------------------------------ the upstream's body

\* Mutant: the newest bytes overtake the ones waiting.
PipeNewestFirst(queue, bytes) == bytes \o queue

\* The stream handed to new Response(ollamaResponse.body): what the upstream
\* writes is what the response's body holds, in order.
Pipe(queue, bytes) == queue \o bytes

UpstreamEmit ==
    /\ streamState = "open"
    /\ linesEmitted < MaxLines
    /\ \E l \in StreamLines :
         /\ body' = Pipe(body, Encode(l))
         /\ sentLines' = Append(sentLines, l)
    /\ linesEmitted' = linesEmitted + 1
    /\ UNCHANGED <<apiUrl, streamState, getVars, postVars, pageVars, readerVars,
                   mountPc, submitPc, exchanges>>

\* The upstream ends the body.
UpstreamClose ==
    /\ streamState = "open"
    /\ streamState' = "closed"
    /\ UNCHANGED <<apiUrl, body, sentLines, linesEmitted, getVars, postVars, pageVars,
                   readerVars, mountPc, submitPc, exchanges>>

\* ------------------------------------------------------------- page: onMount

FetchFailed == <<"Failed to fetch">>

\* err.message of the Error thrown on a non-success response.
ThrownMessage(response, fallback) ==
    IF response.error # <<>> THEN response.error
    ELSE <<fallback, ToString(response.status)>>

OnMount ==
    /\ mountPc = "start"
    /\ getPc = "idle"
    /\ mountPc' = "awaitTags"
    /\ getPc' = "pending"
    /\ getCalls' = <<>>
    /\ getOutcome' = NoOutcome
    /\ UNCHANGED <<apiUrl, getResponse, postVars, streamVars, pageVars, readerVars,
                   submitPc, exchanges>>

\* fetch('/api/ollama/tags') rejects: the request does not reach the relay.
MountFetchReject ==
    /\ mountPc = "awaitTags"
    /\ getPc = "pending"
    /\ errorMessage' = <<"Error loading models: ">> \o FetchFailed
    /\ isLoadingModels' = FALSE
    /\ mountPc' = "done"
    /\ getPc' = "idle"
    /\ UNCHANGED <<apiUrl, getResponse, getCalls, getOutcome, postVars, streamVars,
                   messages, userInput, selectedModel, availableModels, isLoading,
                   readerVars, submitPc, exchanges>>

MountResponse ==
    /\ mountPc = "awaitTags"
    /\ getPc = "responded"
    /\ IF ~Ok(getResponse)
       THEN /\ errorMessage' = <<"Error loading models: ">>
                  \o ThrownMessage(getResponse, "Failed to fetch models: ")
            /\ UNCHANGED <<availableModels, selectedModel>>
       ELSE /\ availableModels' = getResponse.data
            /\ selectedModel' = IF Len(getResponse.data) > 0
                                THEN getResponse.data[1] ELSE selectedModel
            /\ UNCHANGED errorMessage
    /\ isLoadingModels' = FALSE
    /\ mountPc' = "done"
    /\ getPc' = "idle"
    /\ UNCHANGED <<apiUrl, getResponse, getCalls, getOutcome, postVars, streamVars,
                   messages, userInput, isLoading, readerVars, submitPc, exchanges>>

\* ------------------------------------------------------- page: the controls

\* No finished exchange is still on record.  While handleSubmit is under way
\* this says nothing: only the disabled controls keep the user out then.
Quiet == submitPc = "idle" => (postPc = "idle" /\ postRequest = NoRequest)

\* The connection of a finished exchange is torn down and its record dropped.
\* The user's next action is taken after this: it changes none of the page's
\* variables, so every sequence of page states remains.
Forget ==
    /\ submitPc = "idle"
    /\ postPc = "idle"
    /\ postRequest # NoRequest
    /\ postRequest' = NoRequest
    /\ postResponse' = NoResponse
    /\ postCalls' = <<>>
    /\ postOutcome' = NoOutcome
    /\ streamState' = "none" /\ body' = <<>> /\ sentLines' = <<>>
    /\ assistantMessageContent' = <<>>
    /\ decoderPending' = FALSE
    /\ receivedBytes' = <<>>
    /\ UNCHANGED <<apiUrl, getVars, postPc, linesEmitted, pageVars, mountPc, submitPc,
                   exchanges>>

\* Mutant: the controls are enabled although no model is listed.
ControlsDisabledIgnoringModels == isLoading \/ isLoadingModels

\* Mutant: the controls stay enabled while a request is outstanding.
ControlsDisabledNotLoading == isLoadingModels \/ Len(availableModels) = 0

\* The disabled attribute of the input and of the send button.
ControlsDisabled == isLoading \/ isLoadingModels \/ Len(availableModels) = 0

\* The user edits the input.
TypeInput ==
    /\ ~ControlsDisabled
    /\ Quiet
    /\ \E s \in Inputs \ {userInput} : userInput' = s
    /\ UNCHANGED <<apiUrl, getVars, postVars, streamVars, messages, selectedModel,
                   availableModels, isLoading, isLoadingModels, errorMessage,
                   readerVars, mountPc, submitPc, exchanges>>

\* The user picks a model in the select, which is shown once models are loaded.
\* A pick made while handleSubmit is under way is taken as made after it: the
\* request in flight was built before and does not read selectedModel again.
SelectModel ==
    /\ ~isLoadingModels
    /\ submitPc = "idle"
    /\ Quiet
    /\ Len(availableModels) > 0
    /\ \E i \in 1..Len(availableModels) :
         /\ availableModels[i] # selectedModel
         /\ selectedModel' = availableModels[i]
    /\ UNCHANGED <<apiUrl, getVars, postVars, streamVars, messages, userInput,
                   availableModels, isLoading, isLoadingModels, errorMessage,
                   readerVars, mountPc, submitPc, exchanges>>

\* -------------------------------------------------------- page: handleSubmit

Placeholder == <<"...">>

\* Mutant: the input is not trimmed.
RejectedUntrimmed(input, model) == input = <<>> \/ model = ""

\* The guard of handleSubmit: !userInput.trim() || !selectedModel
Rejected(input, model) == Trim(input) = <<>> \/ model = ""

\* handleSubmit returns early.
SubmitRejected ==
    /\ ~ControlsDisabled
    /\ Quiet
    /\ Rejected(userInput, selectedModel)
    /\ errorMessage' = <<"Please enter a message and select a model.">>
    /\ UNCHANGED <<apiUrl, getVars, postVars, streamVars, messages, userInput,
                   selectedModel, availableModels, isLoading, isLoadingModels,
                   readerVars, mountPc, submitPc, exchanges>>

\* Mutant: only the new message is sent, not the history.
ChatRequestNewestOnly(model, ollamaMessages) ==
    [kind |-> "object", has |-> {"model", "messages"}, model |-> model,
     messages |-> <<ollamaMessages[Len(ollamaMessages)]>>, stream |-> FALSE]

\* The body of the fetch to the chat relay.
ChatRequest(model, ollamaMessages) ==
    [kind |-> "object", has |-> {"model", "messages"}, model |-> model,
     messages |-> ollamaMessages, stream |-> FALSE]

\* handleSubmit up to its fetch.
Submit ==
    /\ ~ControlsDisabled
    /\ ~Rejected(userInput, selectedModel)
    /\ exchanges < MaxExchanges
    /\ Quiet
    /\ isLoading' = TRUE
    /\ errorMessage' = <<>>
    /\ messages' = Append(messages, [role |-> "user", content |-> userInput])
    /\ userInput' = <<>>
    /\ postRequest' = ChatRequest(selectedModel, messages')
    /\ postPc' = "pending"
    /\ postCalls' = <<>>
    /\ postOutcome' = NoOutcome
    /\ postResponse' = NoResponse
    /\ streamState' = "none" /\ body' = <<>> /\ sentLines' = <<>>
    /\ assistantMessageContent' = <<>>
    /\ decoderPending' = FALSE
    /\ receivedBytes' = <<>>
    /\ submitPc' = "awaitFetch"
    /\ exchanges' = exchanges + 1
    /\ UNCHANGED <<apiUrl, getVars, linesEmitted, selectedModel, availableModels,
                   isLoadingModels, mountPc>>

\* Mutant: the catch block leaves the history as it is.
RemovePlaceholderNever(msgs) == msgs

\* The catch block: the placeholder is removed when it is still the last message.
RemovePlaceholder(msgs) ==
    IF /\ Len(msgs) > 0
       /\ msgs[Len(msgs)].role = "assistant"
       /\ msgs[Len(msgs)].content = Placeholder
    THEN SubSeq(msgs, 1, Len(msgs) - 1)
    ELSE msgs

\* Mutant: the failure path without the finally block.
SubmitFailedNoFinally(message) ==
    /\ errorMessage' = <<"Error sending message: ">> \o message
    /\ messages' = RemovePlaceholder(messages)
    /\ isLoading' = isLoading
    /\ submitPc' = "idle"

\* catch and finally of handleSubmit, for an error with this message.
SubmitFailed(message) ==
    /\ errorMessage' = <<"Error sending message: ">> \o message
    /\ messages' = RemovePlaceholder(messages)
    /\ isLoading' = FALSE
    /\ submitPc' = "idle"

\* fetch('/api/ollama/chat') rejects: the request does not reach the relay.
SubmitFetchReject ==
    /\ submitPc = "awaitFetch"
    /\ postPc = "pending"
    /\ SubmitFailed(FetchFailed)
    /\ postPc' = "idle"
    /\ UNCHANGED <<apiUrl, getVars, postRequest, postResponse, postCalls, postOutcome,
                   streamVars, userInput, selectedModel, availableModels,
                   isLoadingModels, readerVars, mountPc, exchanges>>

\* The relay's response arrives: an error is thrown, or the reader is taken
\* and the placeholder appended.
SubmitResponse ==
    /\ submitPc = "awaitFetch"
    /\ postPc = "responded"
    /\ postPc' = "idle"
    /\ IF ~Ok(postResponse) \/ postResponse.kind # "stream"
       THEN /\ SubmitFailed(ThrownMessage(postResponse, "Chat API error: "))
            /\ UNCHANGED readerVars
       ELSE /\ messages' = Append(messages, [role |-> "assistant", content |-> Placeholder])
            /\ assistantMessageContent' = <<>>
            /\ decoderPending' = FALSE
            /\ submitPc' = "reading"
            /\ UNCHANGED <<errorMessage, isLoading, receivedBytes>>
    /\ UNCHANGED <<apiUrl, getVars, postRequest, postResponse, postCalls, postOutcome,
                   streamVars, userInput, selectedModel, availableModels,
                   isLoadingModels, mountPc, exchanges>>

\* Mutant: the fragment is added to what the last message holds.
ReplaceLastAppended(msgs, content) ==
    [i \in 1..Len(msgs) |->
        IF i = Len(msgs) THEN [msgs[i] EXCEPT !.content = @ \o content] ELSE msgs[i]]

\* messages.map: the content of the last message replaced.
ReplaceLast(msgs, content) ==
    [i \in 1..Len(msgs) |->
        IF i = Len(msgs) THEN [msgs[i] EXCEPT !.content = content] ELSE msgs[i]]

\* The for loop over the lines of one chunk: <<accumulator, messages>>.
RECURSIVE ApplyLines(_, _, _)
ApplyLines(lines, acc, msgs) ==
    IF lines = <<>> THEN <<acc, msgs>>
    ELSE LET parsed == ParseLine(Head(lines)) IN
         IF parsed.ok /\ parsed.content # <<>>
         THEN ApplyLines(Tail(lines), acc \o parsed.content,
                         ReplaceLast(msgs, acc \o parsed.content))
         ELSE ApplyLines(Tail(lines), acc, msgs)

\* reader.read() gives the next bytes of the body, however many.
ReaderRead ==
    /\ submitPc = "reading"
    /\ \E k \in 1..Len(body) :
         LET value == SubSeq(body, 1, k)
             decoded == Decode(decoderPending, value)
             applied == ApplyLines(ChunkLines(decoded[1]), assistantMessageContent, messages)
         IN /\ body' = SubSeq(body, k + 1, Len(body))
            /\ receivedBytes' = receivedBytes \o value
            /\ decoderPending' = decoded[2]
            /\ assistantMessageContent' = applied[1]
            /\ messages' = applied[2]
    /\ UNCHANGED <<apiUrl, getVars, postVars, streamState, sentLines, linesEmitted,
                   userInput, selectedModel, availableModels, isLoading,
                   isLoadingModels, errorMessage, mountPc, submitPc, exchanges>>

\* reader.read() gives done: the loop ends and finally runs.
ReaderDone ==
    /\ submitPc = "reading"
    /\ streamState = "closed"
    /\ body = <<>>
    /\ isLoading' = FALSE
    /\ submitPc' = "idle"
    /\ UNCHANGED <<apiUrl, getVars, postVars, streamVars, messages, userInput,
                   selectedModel, availableModels, isLoadingModels, errorMessage,
                   readerVars, mountPc, exchanges>>

\* reader.read() rejects: the connection breaks before the body has ended, and
\* the body with what was sent of it is discarded.
ReaderReject ==
    /\ submitPc = "reading"
    /\ streamState = "open"
    /\ streamState' = "errored"
    /\ body' = <<>>
    /\ sentLines' = <<>>
    /\ receivedBytes' = <<>>
    /\ SubmitFailed(<<"network error">>)
    /\ UNCHANGED <<apiUrl, getVars, postVars, linesEmitted, userInput, selectedModel,
                   availableModels, isLoadingModels, assistantMessageContent,
                   decoderPending, mountPc, exchanges>>

\* ----------------------------------------------------------- specification

Next ==
    \/ OnMount \/ MountFetchReject \/ MountResponse
    \/ GetHandle \/ GetContinue
    \/ TypeInput \/ SelectModel
    \/ SubmitRejected \/ Submit \/ SubmitFetchReject \/ SubmitResponse
    \/ PostHandle \/ PostContinue
    \/ UpstreamEmit \/ UpstreamClose
    \/ ReaderRead \/ ReaderDone \/ ReaderReject
    \/ Forget

Spec == Init /\ [][Next]_vars

\* The page with a relay that answers the request it received, an upstream
\* that ends the stream it opened, and an event loop that resumes handleSubmit
\* at each await once its promise has settled: as long as one of these steps
\* can be taken, one of them is.
SpecFair ==
    /\ Init /\ [][Next]_vars
    /\ WF_vars(PostHandle \/ PostContinue \/ UpstreamClose
                 \/ SubmitResponse \/ ReaderRead \/ ReaderDone)

\* ------------------------------------------------- the relay called directly

\* The bodies a caller may post: no JSON, the JSON value null, or an object
\* with any of the fields model, messages and stream.
RequestBodies ==
    { [kind |-> k, has |-> {}, model |-> "", messages |-> <<>>, stream |-> FALSE] :
        k \in {"invalid", "null"} }
    \cup
    { b \in [kind : {"object"}, has : SUBSET {"model", "messages", "stream"},
             model : {"", "llama"},
             messages : {<<>>, <<[role |-> "user", content |-> <<"h">>]>>},
             stream : BOOLEAN] :
        /\ ("model" \notin b.has => b.model = "")
        /\ ("messages" \notin b.has => b.messages = <<>>)
        /\ ("stream" \notin b.has => b.stream = FALSE) }

DirectGet ==
    /\ getPc \in {"idle", "responded"}
    /\ getPc' = "pending"
    /\ getCalls' = <<>>
    /\ getOutcome' = NoOutcome
    /\ getResponse' = NoResponse
    /\ UNCHANGED <<apiUrl, postVars, streamVars, pageVars, readerVars,
                   mountPc, submitPc, exchanges>>

DirectPost ==
    /\ postPc \in {"idle", "responded"}
    /\ \E b \in RequestBodies : postRequest' = b
    /\ postPc' = "pending"
    /\ postCalls' = <<>>
    /\ postOutcome' = NoOutcome
    /\ postResponse' = NoResponse
    /\ streamState' = "none" /\ body' = <<>> /\ sentLines' = <<>>
    /\ UNCHANGED <<apiUrl, linesEmitted, getVars, pageVars, readerVars,
                   mountPc, submitPc, exchanges>>

RelayNext ==
    \/ DirectGet \/ GetHandle \/ GetContinue
    \/ DirectPost \/ PostHandle \/ PostContinue

\* The two handlers under any caller, the page left aside.
SpecRelay == Init /\ [][RelayNext]_vars

\* ------------------------------------------------------------------ claims

\* The bytes of the lines sent, in order.
RECURSIVE SentBytes(_)
SentBytes(ls) == IF ls = <<>> THEN <<>> ELSE Encode(Head(ls)) \o SentBytes(Tail(ls))

\* The contents of the fragments among the lines, concatenated in order.
RECURSIVE Contents(_)
Contents(ls) ==
    IF ls = <<>> THEN <<>>
    ELSE (IF Head(ls).kind = "fragment" THEN Head(ls).content ELSE <<>>)
         \o Contents(Tail(ls))

IsPrefix(a, b) == Len(a) <= Len(b) /\ SubSeq(b, 1, Len(a)) = a

\* The read loop of handleSubmit has ended on the closure of the stream.
StreamFinished == submitPc = "idle" /\ streamState = "closed"

LastMessage == messages[Len(messages)]

\* C1: when the stream consisted of one or more fragments with non-empty
\* contents, then once it has closed the last message of the history is the
\* assistant message whose content is the fragments' contents concatenated in
\* arrival order, however the bytes were divided into chunks.
C1_FinalMessageIsConcatenation ==
    (/\ StreamFinished
     /\ sentLines # <<>>
     /\ \A i \in 1..Len(sentLines) : sentLines[i].kind = "fragment")
    => /\ LastMessage.role = "assistant"
       /\ LastMessage.content = Contents(sentLines)

\* A line that is no JSON lies between two fragments.
MalformedBetweenFragments ==
    \E i, j, k \in 1..Len(sentLines) :
        /\ i < j /\ j < k
        /\ sentLines[i].kind = "fragment"
        /\ sentLines[j].kind = "garbage"
        /\ sentLines[k].kind = "fragment"

\* C2: a malformed line between valid fragments is skipped: the loop runs to
\* the closure of the stream, the final assistant message is the concatenation
\* of the valid fragments' contents alone, and errorMessage is not set.
C2_MalformedLineSkipped ==
    (StreamFinished /\ MalformedBetweenFragments)
    => /\ LastMessage.role = "assistant"
       /\ LastMessage.content = Contents(sentLines)
       /\ errorMessage = <<>>

\* C3: when the upstream call is refused (ECONNREFUSED), GET and POST answer
\* 503 with a non-empty error, and the page that receives this chat response
\* does not start reading a stream: no assistant message is appended, the
\* last message of the history stays the user's.
C3_RefusedIs503AndNoStreaming ==
    /\ getOutcome.cause = "ECONNREFUSED"
         => getResponse.status = 503 /\ getResponse.error # <<>>
    /\ postOutcome.cause = "ECONNREFUSED"
         => /\ postResponse.status = 503 /\ postResponse.error # <<>>
            /\ postResponse.kind = "json"
            /\ submitPc # "reading"
            /\ LastMessage.role = "user"

C3_Witness ==
    /\ postOutcome.cause = "ECONNREFUSED"
    /\ postResponse.status = 503
    /\ submitPc = "idle"
    /\ ~isLoading
    /\ errorMessage # <<>>

\* C4: whenever the upstream call fails to reach the service, whatever the
\* cause, GET and POST answer 503.
C4_EveryConnectionFailureIs503 ==
    /\ getOutcome.kind = "reject" => getResponse.status = 503
    /\ postOutcome.kind = "reject" => postResponse.status = 503

\* C5: with the upstream URL not configured, either handler answers 500 with
\* an error envelope whatever the request holds, and makes no upstream call.
C5_UnconfiguredIs500WithoutCall ==
    apiUrl = ""
    => /\ getCalls = <<>> /\ postCalls = <<>>
       /\ getPc # "upstream" /\ postPc # "upstream"
       /\ getPc = "responded"
            => /\ getResponse.status = 500 /\ getResponse.kind = "json"
               /\ getResponse.error # <<>>
       /\ postPc = "responded"
            => /\ postResponse.status = 500 /\ postResponse.kind = "json"
               /\ postResponse.error # <<>>

C5_Witness ==
    /\ apiUrl = ""
    /\ postPc = "responded"
    /\ postRequest.kind = "invalid"
    /\ getPc = "responded"

\* The request body is JSON and holds no model or no messages.
FieldAbsent(request) ==
    \/ request.kind = "null"
    \/ request.kind = "object"
       /\ ("model" \notin request.has \/ "messages" \notin request.has)

\* C6: (with the upstream URL configured: C5 covers the other case) a request
\* body in which model or messages is absent is answered 400 with an error
\* envelope, and no upstream call is made.
C6_AbsentFieldIs400WithoutCall ==
    (apiUrl # "" /\ FieldAbsent(postRequest))
    => /\ postCalls = <<>>
       /\ postPc # "upstream"
       /\ postPc = "responded"
            => postResponse.status = 400 /\ postResponse.error # <<>>

\* C7: one invocation of the chat relay makes at most one upstream call, and
\* the body of that call has stream = true whether the caller sent
\* stream = false, stream = true or no stream field.
C7_OneCallWithStreamForced ==
    /\ Len(postCalls) <= 1
    /\ \A i \in 1..Len(postCalls) :
         /\ postCalls[i].body.stream = TRUE
         /\ postCalls[i].body.model = postRequest.model
         /\ postCalls[i].body.messages = postRequest.messages
    /\ postPc = "upstream" => Len(postCalls) = 1

C7_Witness ==
    /\ Len(postCalls) = 1
    /\ "stream" \in postRequest.has
    /\ postRequest.stream = FALSE
    /\ postPc = "responded"

\* C8: on a success response of the chat relay the bytes the page's reader
\* has got are at every point a prefix of the bytes the upstream has sent,
\* and once the stream has closed and been read to its end they are equal.
C8_ReaderGetsWhatUpstreamSent ==
    /\ IsPrefix(receivedBytes, SentBytes(sentLines))
    /\ receivedBytes \o body = SentBytes(sentLines)
    /\ StreamFinished => receivedBytes = SentBytes(sentLines)

C8_Witness ==
    /\ StreamFinished
    /\ Len(sentLines) >= 2
    /\ receivedBytes = SentBytes(sentLines)

\* The error field holds the text.
Holds(error, text) == \E i \in 1..Len(error) : error[i] = text

\* C9: when the upstream answers a non-success status s, each handler gives
\* one JSON error envelope with status s whose error field holds the
\* upstream's body text; the chat relay gives no 200 streamed body then.
C9_UpstreamStatusPropagated ==
    /\ getOutcome.kind = "status"
         => /\ getResponse.status = getOutcome.status
            /\ getResponse.kind = "json"
            /\ Holds(getResponse.error, getOutcome.text)
    /\ postOutcome.kind = "status"
         => /\ postResponse.status = postOutcome.status
            /\ postResponse.kind = "json"
            /\ Holds(postResponse.error, postOutcome.text)
            /\ streamState = "none"

C9_Witness ==
    /\ postOutcome.kind = "status" /\ postOutcome.status = 404
    /\ postOutcome.text = "model not found"
    /\ getOutcome.kind = "status" /\ getOutcome.status = 500
    /\ postPc = "responded" /\ getPc = "responded"

\* C10: in a state where handleSubmit can be invoked and the input is empty
\* or only whitespace, or no model is selected, no step changes the history,
\* sets isLoading or issues a request: the chat relay stays uncalled.
C10_BlankSubmitChangesNothing ==
    [][ (/\ ~ControlsDisabled
         /\ (Trim(userInput) = <<>> \/ selectedModel = ""))
        => /\ messages' = messages
           /\ isLoading' = FALSE
           /\ submitPc' = "idle"
           /\ postPc' = "idle" /\ Len(postCalls') <= Len(postCalls)
           /\ getPc' = getPc /\ getCalls' = getCalls ]_vars

\* handleSubmit has returned early on a whitespace-only input.
C10_Witness ==
    /\ errorMessage = <<"Please enter a message and select a model.">>
    /\ userInput = <<" ">>
    /\ selectedModel # ""
    /\ messages # <<>>
    /\ ~isLoading

\* C11: when the model listing returned zero models, then after loading has
\* finished selectedModel is still empty and the send control is disabled: no
\* chat request is ever issued from that page.
C11_NoModelsNoChat ==
    (getOutcome.kind = "ok" /\ getOutcome.models = <<>> /\ mountPc = "done")
    => /\ selectedModel = ""
       /\ availableModels = <<>>
       /\ ControlsDisabled
       /\ ~isLoading /\ submitPc = "idle"
       /\ postPc = "idle" /\ postRequest = NoRequest /\ postCalls = <<>>
       /\ messages = <<>> /\ userInput = <<>>

C11_Witness ==
    /\ getOutcome.kind = "ok" /\ getOutcome.models = <<>>
    /\ mountPc = "done"
    /\ ~isLoadingModels
    /\ errorMessage = <<>>

\* handleSubmit has ended on a rejected read of the stream.
ReadFailed == submitPc = "idle" /\ streamState = "errored"

\* C12: when a read of the stream rejects after the placeholder was appended
\* and before any content fragment was applied, then once handleSubmit has
\* finished the placeholder is gone: the history is the one sent with the
\* request, its last message the user's, and errorMessage is set.
C12_PlaceholderRemovedOnEarlyFailure ==
    (ReadFailed /\ assistantMessageContent = <<>>)
    => /\ messages = postRequest.messages
       /\ LastMessage.role = "user"
       /\ errorMessage # <<>>
       /\ ~isLoading

C12_Witness ==
    /\ ReadFailed
    /\ assistantMessageContent = <<>>
    /\ sentLines = <<>>
    /\ Len(messages) = 1
    /\ errorMessage = <<"Error sending message: ", "network error">>

\* C13: once handleSubmit has finished, successfully or not, the exchange has
\* left no dangling assistant turn: the last message is not a placeholder
\* that received no content fragment.
C13_NoDanglingPlaceholder ==
    (submitPc = "idle" /\ ~isLoading /\ postRequest # NoRequest)
    => ~(/\ LastMessage.role = "assistant"
         /\ LastMessage.content = Placeholder
         /\ assistantMessageContent = <<>>)

\* C14: isLoading is true exactly while handleSubmit is under way, and while
\* it is true no further handleSubmit starts and the input cannot be edited:
\* at most one exchange is in flight.
C14_OneExchangeInFlight ==
    /\ [](isLoading <=> submitPc # "idle")
    /\ [][isLoading => (exchanges' = exchanges /\ userInput' = userInput)]_vars

\* A second exchange is reading its stream, the first one over.
C14_Witness ==
    /\ isLoading
    /\ submitPc = "reading"
    /\ exchanges = 2
    /\ body # <<>>

\* C15: every exchange that has set isLoading clears it again, on success and
\* on every failure path, given that the relay responds and the stream closes
\* or fails; and the reader runs only on a success response with a body.
C15_ExchangeReturnsToIdle ==
    /\ isLoading ~> ~isLoading
    /\ [](submitPc = "reading" => (Ok(postResponse) /\ postResponse.kind = "stream"))

\* A second exchange is over, its stream read to the end.
C15_Witness ==
    /\ StreamFinished
    /\ ~isLoading
    /\ exchanges = 2
    /\ receivedBytes # <<>>
    /\ postResponse.kind = "stream"

\* C16: between the submit and the relay's response the history ends with the
\* user's new message and the input is empty; no upstream call was made before
\* the message was appended; and the messages sent to the relay, and those
\* the relay forwards upstream, are the history element for element.
C16_HistorySentAsIs ==
    submitPc = "awaitFetch"
    => /\ messages # <<>>
       /\ LastMessage.role = "user"
       /\ Trim(LastMessage.content) # <<>>
       /\ userInput = <<>>
       /\ postRequest.messages = messages
       /\ postPc = "pending" => postCalls = <<>>
       /\ \A i \in 1..Len(postCalls) : postCalls[i].body.messages = messages

\* The relay is calling the upstream with the history of a second exchange.
C16_Witness ==
    /\ submitPc = "awaitFetch"
    /\ postPc = "upstream"
    /\ Len(postCalls) = 1
    /\ Len(messages) >= 3
    /\ postCalls[1].body.messages = messages

\* C17: while the stream is read, a step that applies a fragment changes only
\* the content of the last message, which becomes the whole accumulator; the
\* length of the history, the roles and all earlier messages stay as they
\* were, and a step that applies no fragment leaves the history alone.
C17_FragmentReplacesLastContent ==
    [][(submitPc = "reading" /\ submitPc' = "reading")
       => /\ Len(messages') = Len(messages)
          /\ \A i \in 1..(Len(messages) - 1) : messages'[i] = messages[i]
          /\ messages'[Len(messages)].role = messages[Len(messages)].role
          /\ IF assistantMessageContent' # assistantMessageContent
             THEN messages'[Len(messages)].content = assistantMessageContent'
             ELSE messages' = messages]_vars

\* Two fragments were applied to the answer of a second exchange.
C17_Witness ==
    /\ submitPc = "reading"
    /\ Len(assistantMessageContent) >= 2
    /\ LastMessage.role = "assistant"
    /\ LastMessage.content = assistantMessageContent
    /\ Len(messages) >= 4

\* C18: when a read rejects after at least one fragment was applied, the
\* assistant message is still the last one once handleSubmit has finished, and
\* its content is all that was accumulated, whatever that text is.
C18_PartialAnswerKept ==
    (ReadFailed /\ assistantMessageContent # <<>>)
    => /\ LastMessage.role = "assistant"
       /\ LastMessage.content = assistantMessageContent

\* C19: a user message keeps its position and its content in every step; the
\* history shrinks by one message at most, and the message removed is a
\* trailing assistant placeholder: one that has received no content.
C19_UserMessagesStay ==
    [][/\ \A i \in 1..Len(messages) :
            messages[i].role = "user"
            => (Len(messages') >= i /\ messages'[i] = messages[i])
       /\ Len(messages') < Len(messages)
          => /\ Len(messages') = Len(messages) - 1
             /\ LastMessage.role = "assistant"
             /\ LastMessage.content = Placeholder
             /\ assistantMessageContent = <<>>]_vars

====
